---------------------------- MODULE Spec2Model ----------------------------
(***************************************************************************)
(* Model of berrydb's intrusive doubly linked list                         *)
(* (src/src/util/linked_list.h): LinkedListNode, LinkedList, its iterator  *)
(* and the two bridges (the default LinkedListBridge and the custom bridge *)
(* of the class comment).                                                  *)
(*                                                                         *)
(* Memory is a set of node addresses.  A "machine" is one build of the     *)
(* program: a record holding every node's next_, prev_ and list_sentinel_  *)
(* field, every list's size_, the set of constructed lists, one iterator   *)
(* object and the fatal condition that stopped the program, if any.  The   *)
(* build with BERRYDB_CHECK_IS_ON() == 1 is the variable dbg, the build    *)
(* with BERRYDB_CHECK_IS_ON() == 0 is the variable opt, which takes the    *)
(* same calls when the flag both is set.                                   *)
(***************************************************************************)
EXTENDS Integers, Sequences, FiniteSets, TLC

\* Number of host (embedder) objects.
MaxHosts == 3

\* sizeof(Embedder) in node units: the embedder holds two node fields,
\* linked_list_node_ (default bridge) and custom_list_node_ (custom bridge).
HostStride == 2

\* nullptr
Null == 0

\* An indeterminate value: a field no constructor has written.
Uninit == -1

\* What a traversal reports when it cannot be completed as the code runs it.
Broken == Uninit - 1

DefaultBridge == "LinkedListBridge"
CustomBridge == "CustomLinkedListBridge"
Bridges == {DefaultBridge, CustomBridge}

\* Embedder* values: the addresses of the host objects.
Hosts == {h * HostStride : h \in 1..MaxHosts}

\* offsetof(Embedder, linked_list_node_) / offsetof(Embedder, custom_list_node_)
\* Both bridges resolve to the same node field of the host.
offsetof_one_field(bridge) == 0

offsetof(bridge) == IF bridge = DefaultBridge THEN 0 ELSE 1

\* The LinkedList objects of the program and the Bridge parameter of each.
Lists == {"L1", "L2", "M1"}
BridgeOf(l) == IF l = "M1" THEN CustomBridge ELSE DefaultBridge

\* &list.sentinel_ : the lists are laid out after the hosts.
ListIndex(l) == CASE l = "L1" -> 0 [] l = "L2" -> 1 [] OTHER -> 2
SentinelOf(l) == (MaxHosts + 1) * HostStride + ListIndex(l)

Sentinels == {SentinelOf(l) : l \in Lists}
HostNodes(bridge) == {h + offsetof(bridge) : h \in Hosts}
Nodes == Sentinels \cup HostNodes(DefaultBridge) \cup HostNodes(CustomBridge)

\* The list object a sentinel address belongs to.
ListOfSentinel(s) == CHOOSE l \in Lists : SentinelOf(l) = s

NoFatal == "running"
UB == "undefined behaviour"

\* dbg, opt : the two builds' machines; both : whether the unchecked build is
\* run beside the checked one; op : the name of the last call made.
VARIABLES dbg, opt, both, op

vars == <<dbg, opt, both, op>>

----------------------------------------------------------------------------
(* Statements *)

Running(m) == m.fatal = NoFatal

\* BERRYDB_CHECK(cond), always inside #if BERRYDB_CHECK_IS_ON(): the program
\* dies with a diagnostic when cond is false.
BERRYDB_CHECK(m, cond, tag) ==
    IF Running(m) /\ m.check_is_on /\ ~cond THEN [m EXCEPT !.fatal = tag] ELSE m

\* BERRYDB_ASSUME(cond) / DCHECK(cond): checked like BERRYDB_CHECK when checks
\* are on, an optimizer assumption (undefined behaviour when false) otherwise.
\* The pointer tests "p != nullptr" are written "p \in Nodes" below: a field
\* holds a node address, nullptr or an indeterminate value, and testing an
\* indeterminate value is undefined behaviour as well.
BERRYDB_ASSUME(m, cond, tag) ==
    IF Running(m) /\ ~cond
    THEN [m EXCEPT !.fatal = IF m.check_is_on THEN tag ELSE UB]
    ELSE m

\* Reading a field through a pointer; a null or wild pointer reads garbage.
Load(field, p) == IF p \in DOMAIN field THEN field[p] ELSE Uninit

\* p->next_ = v
StoreNext(m, p, v) ==
    IF ~Running(m) THEN m
    ELSE IF p \notin Nodes THEN [m EXCEPT !.fatal = UB]
    ELSE [m EXCEPT !.next_[p] = v]

\* p->prev_ = v
StorePrev(m, p, v) ==
    IF ~Running(m) THEN m
    ELSE IF p \notin Nodes THEN [m EXCEPT !.fatal = UB]
    ELSE [m EXCEPT !.prev_[p] = v]

\* p->list_sentinel_ = v, a field that exists only when checks are on.
StoreListSentinel(m, p, v) ==
    IF ~Running(m) \/ ~m.check_is_on THEN m
    ELSE IF p \notin Nodes THEN [m EXCEPT !.fatal = UB]
    ELSE [m EXCEPT !.list_sentinel_[p] = v]

\* list.size_ = v
StoreSize(m, l, v) == IF ~Running(m) THEN m ELSE [m EXCEPT !.size_[l] = v]

\* A call's result: the machine after the call and the value returned.
Ret(m, r) == [m |-> m, ret |-> r]

\* Statement sequencing: the statement F runs on the state x that the
\* statements before it produced.
Then(x, F(_)) == F(x)

----------------------------------------------------------------------------
(* LinkedListNode *)

is_sentinel(m, this) == this = Load(m.list_sentinel_, this)

next(m, this) ==
    LET m1 == BERRYDB_CHECK(m, Load(m.list_sentinel_, this) # Null, "next: node not in a list")
        m2 == BERRYDB_ASSUME(m1, Load(m.next_, this) \in Nodes, "next: next_ is null")
        m3 == BERRYDB_ASSUME(m2, Load(m.prev_, Load(m.next_, this)) = this,
                             "next: next_->prev_ != this")
    IN  Ret(m3, Load(m.next_, this))

prev(m, this) ==
    LET m1 == BERRYDB_CHECK(m, Load(m.list_sentinel_, this) # Null, "prev: node not in a list")
        m2 == BERRYDB_ASSUME(m1, Load(m.prev_, this) \in Nodes, "prev: prev_ is null")
        m3 == BERRYDB_ASSUME(m2, Load(m.next_, Load(m.prev_, this)) = this,
                             "prev: prev_->next_ != this")
    IN  Ret(m3, Load(m.prev_, this))

\* InsertBefore's first part without the three tests that this node is in
\* no list.
InsertBefore_checks_attached_ok(m, this, nxt) ==
    LET m1 == BERRYDB_ASSUME(m, nxt # Null, "InsertBefore: next is null")
        m2 == BERRYDB_CHECK(m1, ~is_sentinel(m, this), "InsertBefore: this is a sentinel")
        m6 == BERRYDB_CHECK(m2, Load(m.list_sentinel_, nxt) # Null,
                            "InsertBefore: next not in a list")
        m7 == Then(m6, LAMBDA x : StoreListSentinel(x, this, Load(x.list_sentinel_, nxt)))
        m8 == Then(m7, LAMBDA x : BERRYDB_ASSUME(x, Load(x.next_, nxt) \in Nodes,
                                                 "InsertBefore: next->next_ is null"))
        m9 == Then(m8, LAMBDA x : BERRYDB_ASSUME(x, Load(x.prev_, nxt) \in Nodes,
                                                 "InsertBefore: next->prev_ is null"))
    IN  m9

\* The first part of InsertBefore: the checks and the list_sentinel_ update.
InsertBefore_checks(m, this, nxt) ==
    LET m1 == BERRYDB_ASSUME(m, nxt # Null, "InsertBefore: next is null")
        m2 == BERRYDB_CHECK(m1, ~is_sentinel(m, this), "InsertBefore: this is a sentinel")
        m3 == BERRYDB_CHECK(m2, Load(m.list_sentinel_, this) = Null,
                            "InsertBefore: node already in a list")
        m4 == BERRYDB_CHECK(m3, Load(m.next_, this) = Null, "InsertBefore: next_ not null")
        m5 == BERRYDB_CHECK(m4, Load(m.prev_, this) = Null, "InsertBefore: prev_ not null")
        m6 == BERRYDB_CHECK(m5, Load(m.list_sentinel_, nxt) # Null,
                            "InsertBefore: next not in a list")
        m7 == Then(m6, LAMBDA x : StoreListSentinel(x, this, Load(x.list_sentinel_, nxt)))
        m8 == Then(m7, LAMBDA x : BERRYDB_ASSUME(x, Load(x.next_, nxt) \in Nodes,
                                                 "InsertBefore: next->next_ is null"))
        m9 == Then(m8, LAMBDA x : BERRYDB_ASSUME(x, Load(x.prev_, nxt) \in Nodes,
                                                 "InsertBefore: next->prev_ is null"))
    IN  m9

\* The four link assignments with the two pairs in the other order.
InsertBefore_links_reordered(m, this, nxt) ==
    LET m10 == StoreNext(m, this, nxt)
        m11 == Then(m10, LAMBDA x : StorePrev(x, Load(x.next_, this), this))
        m12 == Then(m11, LAMBDA x : StorePrev(x, this, Load(x.prev_, nxt)))
        m13 == Then(m12, LAMBDA x : StoreNext(x, Load(x.prev_, this), this))
    IN  m13

\* The second part of InsertBefore: the four link assignments.
InsertBefore_links(m, this, nxt) ==
    LET m10 == StorePrev(m, this, Load(m.prev_, nxt))
        m11 == Then(m10, LAMBDA x : StoreNext(x, Load(x.prev_, this), this))
        m12 == StoreNext(m11, this, nxt)
        m13 == Then(m12, LAMBDA x : StorePrev(x, Load(x.next_, this), this))
    IN  m13

InsertBefore(m, this, nxt) == InsertBefore_links(InsertBefore_checks(m, this, nxt), this, nxt)

\* Remove() with the two neighbour assignments inside the
\* #if BERRYDB_CHECK_IS_ON() block.
Remove_unlinks_if_checked(m, this) ==
    LET m1 == BERRYDB_CHECK(m, ~is_sentinel(m, this), "Remove: this is a sentinel")
        m2 == BERRYDB_CHECK(m1, Load(m.list_sentinel_, this) # Null, "Remove: node not in a list")
        m3 == StoreListSentinel(m2, this, Null)
        m6 == Then(m3, LAMBDA x : IF x.check_is_on
                                  THEN StorePrev(x, Load(x.next_, this), Load(x.prev_, this))
                                  ELSE x)
        m7 == Then(m6, LAMBDA x : IF x.check_is_on
                                  THEN StoreNext(x, Load(x.prev_, this), Load(x.next_, this))
                                  ELSE x)
        m8 == Then(m7, LAMBDA x : IF x.check_is_on THEN StoreNext(x, this, Null) ELSE x)
        m9 == Then(m8, LAMBDA x : IF x.check_is_on THEN StorePrev(x, this, Null) ELSE x)
    IN  m9

\* Remove() that writes prev_ of the predecessor instead of the successor.
Remove_wrong_neighbour(m, this) ==
    LET m1 == BERRYDB_CHECK(m, ~is_sentinel(m, this), "Remove: this is a sentinel")
        m2 == BERRYDB_CHECK(m1, Load(m.list_sentinel_, this) # Null, "Remove: node not in a list")
        m3 == StoreListSentinel(m2, this, Null)
        m6 == Then(m3, LAMBDA x : StorePrev(x, Load(x.prev_, this), Load(x.prev_, this)))
        m7 == Then(m6, LAMBDA x : StoreNext(x, Load(x.prev_, this), Load(x.next_, this)))
        m8 == Then(m7, LAMBDA x : IF x.check_is_on THEN StoreNext(x, this, Null) ELSE x)
        m9 == Then(m8, LAMBDA x : IF x.check_is_on THEN StorePrev(x, this, Null) ELSE x)
    IN  m9

\* Remove() without this->prev_->next_ = this->next_.
Remove_one_side(m, this) ==
    LET m1 == BERRYDB_CHECK(m, ~is_sentinel(m, this), "Remove: this is a sentinel")
        m2 == BERRYDB_CHECK(m1, Load(m.list_sentinel_, this) # Null, "Remove: node not in a list")
        m3 == StoreListSentinel(m2, this, Null)
        m6 == Then(m3, LAMBDA x : StorePrev(x, Load(x.next_, this), Load(x.prev_, this)))
        m8 == Then(m6, LAMBDA x : IF x.check_is_on THEN StoreNext(x, this, Null) ELSE x)
        m9 == Then(m8, LAMBDA x : IF x.check_is_on THEN StorePrev(x, this, Null) ELSE x)
    IN  m9

\* Remove() that leaves the removed node's own next_ and prev_ as they were.
Remove_keeps_links(m, this) ==
    LET m1 == BERRYDB_CHECK(m, ~is_sentinel(m, this), "Remove: this is a sentinel")
        m2 == BERRYDB_CHECK(m1, Load(m.list_sentinel_, this) # Null, "Remove: node not in a list")
        m3 == StoreListSentinel(m2, this, Null)
        m6 == Then(m3, LAMBDA x : StorePrev(x, Load(x.next_, this), Load(x.prev_, this)))
        m7 == Then(m6, LAMBDA x : StoreNext(x, Load(x.prev_, this), Load(x.next_, this)))
    IN  m7

Remove(m, this) ==
    LET m1 == BERRYDB_CHECK(m, ~is_sentinel(m, this), "Remove: this is a sentinel")
        m2 == BERRYDB_CHECK(m1, Load(m.list_sentinel_, this) # Null, "Remove: node not in a list")
        m3 == StoreListSentinel(m2, this, Null)
        m4 == Then(m3, LAMBDA x : BERRYDB_ASSUME(x, Load(x.next_, this) \in Nodes,
                                                 "Remove: next_ is null"))
        m5 == Then(m4, LAMBDA x : BERRYDB_ASSUME(x, Load(x.prev_, this) \in Nodes,
                                                 "Remove: prev_ is null"))
        m6 == Then(m5, LAMBDA x : StorePrev(x, Load(x.next_, this), Load(x.prev_, this)))
        m7 == Then(m6, LAMBDA x : StoreNext(x, Load(x.prev_, this), Load(x.next_, this)))
        m8 == Then(m7, LAMBDA x : IF x.check_is_on THEN StoreNext(x, this, Null) ELSE x)
        m9 == Then(m8, LAMBDA x : IF x.check_is_on THEN StorePrev(x, this, Null) ELSE x)
    IN  m9

----------------------------------------------------------------------------
(* Bridges *)

NodeForHost(bridge, host) == host + offsetof(bridge)

\* The default bridge checks that the node is no sentinel; the custom bridge
\* of the class comment only assumes that the pointer arithmetic round-trips.
HostForNode(m, bridge, node) ==
    LET m1 == IF bridge = DefaultBridge
              THEN BERRYDB_CHECK(m, ~is_sentinel(m, node), "HostForNode: node is a sentinel")
              ELSE m
        m2 == BERRYDB_ASSUME(m1, node = (node - offsetof(bridge)) + offsetof(bridge),
                             "HostForNode: wrong node")
    IN  Ret(m2, node - offsetof(bridge))

----------------------------------------------------------------------------
(* LinkedList::iterator (the argument node is the iterator's node_) *)

\* operator++ and operator++(int): the new node_.
iterator_inc(m, node) ==
    next(BERRYDB_CHECK(m, ~is_sentinel(m, node), "operator++: already at end()"), node)

\* operator-- without the test of prev()->is_sentinel().
iterator_dec_unchecked(m, node) == prev(m, node)

\* operator-- and operator--(int): the new node_.
iterator_dec(m, node) ==
    LET r1 == IF m.check_is_on THEN prev(m, node) ELSE Ret(m, Null)
        m2 == Then(r1, LAMBDA r : BERRYDB_CHECK(r.m, ~is_sentinel(r.m, r.ret),
                                                "operator--: already at begin()"))
    IN  prev(m2, node)

\* operator*
iterator_deref(m, bridge, node) == HostForNode(m, bridge, node)

----------------------------------------------------------------------------
(* LinkedList *)

empty(m, l) == Then(next(m, SentinelOf(l)), LAMBDA r : Ret(r.m, r.ret = SentinelOf(l)))

size(m, l) == m.size_[l]

begin(m, l) ==
    Then(next(m, SentinelOf(l)),
         LAMBDA r : Ret(BERRYDB_ASSUME(r.m, r.ret # Null, "iterator: node is null"), r.ret))

end(m, l) == Ret(m, SentinelOf(l))

front(m, l) == Then(begin(m, l), LAMBDA b : iterator_deref(b.m, BridgeOf(l), b.ret))

back(m, l) ==
    Then(Then(end(m, l), LAMBDA e : iterator_dec(e.m, e.ret)),
         LAMBDA d : iterator_deref(d.m, BridgeOf(l), d.ret))

\* insert() with ++size_ ahead of InsertBefore().
insert_counts_first(m, l, pos, value) ==
    Then(StoreSize(m, l, m.size_[l] + 1),
         LAMBDA x : InsertBefore(x, NodeForHost(BridgeOf(l), value), pos))

\* insert without ++size_
insert_no_count(m, l, pos, value) ==
    InsertBefore(m, NodeForHost(BridgeOf(l), value), pos)

insert(m, l, pos, value) ==
    LET m1 == BERRYDB_ASSUME(m, value # Null, "insert: value is null")
        m2 == BERRYDB_ASSUME(m1, NodeForHost(BridgeOf(l), value) # Null, "insert: node is null")
        h == Then(m2, LAMBDA x : IF x.check_is_on
                                 THEN HostForNode(x, BridgeOf(l), NodeForHost(BridgeOf(l), value))
                                 ELSE Ret(x, value))
        m3 == Then(h, LAMBDA r : BERRYDB_ASSUME(r.m, value = r.ret,
                                                "insert: bridge does not round-trip"))
        m4 == InsertBefore(m3, NodeForHost(BridgeOf(l), value), pos)
        m5 == Then(m4, LAMBDA x : StoreSize(x, l, x.size_[l] + 1))
    IN  m5

\* erase(iterator pos)
erase(m, l, pos) ==
    LET m1 == BERRYDB_ASSUME(m, pos # Null, "erase: node is null")
        m2 == BERRYDB_CHECK(m1, ~is_sentinel(m, pos), "erase: node is a sentinel")
        m3 == BERRYDB_CHECK(m2, SentinelOf(l) = Load(m.list_sentinel_, pos),
                            "erase: node not in this list")
        m4 == Remove(m3, pos)
        m5 == Then(m4, LAMBDA x : BERRYDB_ASSUME(x, x.size_[l] > 0, "erase: size_ is 0"))
        m6 == Then(m5, LAMBDA x : StoreSize(x, l, x.size_[l] - 1))
    IN  m6

\* erase(value_type value) without the comparison against &sentinel_.
erase_value_any_list(m, l, value) ==
    LET m2 == BERRYDB_CHECK(m, ~is_sentinel(m, NodeForHost(BridgeOf(l), value)),
                            "erase: node is a sentinel")
        m4 == Remove(m2, NodeForHost(BridgeOf(l), value))
        m5 == Then(m4, LAMBDA x : BERRYDB_ASSUME(x, x.size_[l] > 0, "erase: size_ is 0"))
        m6 == Then(m5, LAMBDA x : StoreSize(x, l, x.size_[l] - 1))
    IN  m6

\* erase(value_type value)
erase_value(m, l, value) ==
    LET m2 == BERRYDB_CHECK(m, ~is_sentinel(m, NodeForHost(BridgeOf(l), value)),
                            "erase: node is a sentinel")
        m3 == BERRYDB_CHECK(m2, SentinelOf(l) = Load(m.list_sentinel_,
                                                    NodeForHost(BridgeOf(l), value)),
                            "erase: node not in this list")
        m4 == Remove(m3, NodeForHost(BridgeOf(l), value))
        m5 == Then(m4, LAMBDA x : BERRYDB_ASSUME(x, x.size_[l] > 0, "erase: size_ is 0"))
        m6 == Then(m5, LAMBDA x : StoreSize(x, l, x.size_[l] - 1))
    IN  m6

push_front(m, l, value) == Then(begin(m, l), LAMBDA b : insert(b.m, l, b.ret, value))

push_back(m, l, value) == Then(end(m, l), LAMBDA e : insert(e.m, l, e.ret, value))

pop_front(m, l) == Then(begin(m, l), LAMBDA b : erase(b.m, l, b.ret))

pop_back(m, l) ==
    Then(Then(end(m, l), LAMBDA e : iterator_dec(e.m, e.ret)),
         LAMBDA d : erase(d.m, l, d.ret))

----------------------------------------------------------------------------
(* Constructors *)

\* Memory before any constructor has run.
RawMemory(chk) ==
    [check_is_on |-> chk,
     next_ |-> [n \in Nodes |-> Uninit],
     prev_ |-> [n \in Nodes |-> Uninit],
     list_sentinel_ |-> [n \in Nodes |-> Uninit],
     size_ |-> [l \in Lists |-> Uninit],
     live |-> {},
     it |-> Null,
     fatal |-> NoFatal]

\* LinkedListNode(): the constructor of non-sentinel nodes writes the fields
\* only when checks are on.
LinkedListNode_plain(m, this) ==
    IF m.check_is_on
    THEN StoreListSentinel(StorePrev(StoreNext(m, this, Null), this, Null), this, Null)
    ELSE m

\* LinkedListNode(SentinelNodeTag)
LinkedListNode_sentinel(m, this) ==
    StoreListSentinel(StorePrev(StoreNext(m, this, this), this, this), this, this)

\* The loop body without its assignment to list_sentinel_.
MoveWalkStep_no_rewrite(m, this, other, node) ==
    LET m1 == BERRYDB_CHECK(m, ~is_sentinel(m, node), "move: sentinel in the chain")
        m2 == BERRYDB_CHECK(m1, other = Load(m.list_sentinel_, node),
                            "move: node of another list")
    IN  m2

\* One pass of the CHECK-only loop of the move constructor, at node.
MoveWalkStep(m, this, other, node) ==
    LET m1 == BERRYDB_CHECK(m, ~is_sentinel(m, node), "move: sentinel in the chain")
        m2 == BERRYDB_CHECK(m1, other = Load(m.list_sentinel_, node),
                            "move: node of another list")
        m3 == BERRYDB_CHECK(m2, Load(m.next_, node) # Null, "move: next_ is null")
        m4 == BERRYDB_CHECK(m3, Load(m.prev_, node) # Null, "move: prev_ is null")
    IN  StoreListSentinel(m4, node, this)

\* The CHECK-only loop of the move constructor; visited lists the nodes whose
\* list_sentinel_ the loop has rewritten, in order.
RECURSIVE MoveWalk(_, _, _, _, _)
MoveWalk(m, this, other, node, visited) ==
    IF ~Running(m) \/ node = this THEN Ret(m, visited)
    ELSE IF Len(visited) > Cardinality(Nodes)
    THEN Ret([m EXCEPT !.fatal = "move: the walk does not end"], visited)
    ELSE Then(MoveWalkStep(m, this, other, node),
              LAMBDA x : MoveWalk(x, this, other, Load(x.next_, node), Append(visited, node)))

\* The relinking of a non-empty chain from other_sentinel to this.
MoveLinks(m, this, other) ==
    LET a == StoreNext(m, this, Load(m.next_, other))
        b == StoreNext(a, other, other)
        c == Then(b, LAMBDA x : StorePrev(x, this, Load(x.prev_, other)))
        d == StorePrev(c, other, other)
        e == Then(d, LAMBDA x : StorePrev(x, Load(x.next_, this), this))
        f == Then(e, LAMBDA x : StoreNext(x, Load(x.prev_, this), this))
    IN  f

\* The move constructor copying the link fields of an empty source instead
\* of linking the new sentinel to itself.
LinkedListNode_move_copies_empty(m, this, other) ==
    LET m0 == StoreListSentinel(m, this, this)
        m1 == Then(m0, LAMBDA x : BERRYDB_CHECK(x, is_sentinel(x, other),
                                                "move: source is no sentinel"))
        r == next(m1, other)
    IN  Then(r, LAMBDA y :
             IF y.ret = other
             THEN Ret(StoreNext(StorePrev(y.m, this, other), this, other), <<>>)
             ELSE Then(MoveLinks(y.m, this, other), LAMBDA x :
                       IF x.check_is_on
                       THEN MoveWalk(x, this, other, Load(x.next_, this), <<>>)
                       ELSE Ret(x, <<>>)))

\* The move constructor without the initializer list_sentinel_(this).
LinkedListNode_move_no_owner(m, this, other) ==
    LET m1 == BERRYDB_CHECK(m, is_sentinel(m, other), "move: source is no sentinel")
        r == next(m1, other)
    IN  Then(r, LAMBDA y :
             IF y.ret = other
             THEN Ret(StoreNext(StorePrev(y.m, this, this), this, this), <<>>)
             ELSE Then(MoveLinks(y.m, this, other), LAMBDA x :
                       IF x.check_is_on
                       THEN MoveWalk(x, this, other, Load(x.next_, this), <<>>)
                       ELSE Ret(x, <<>>)))

\* LinkedListNode(LinkedListNode&& other_sentinel); returns the walk.
LinkedListNode_move(m, this, other) ==
    LET m0 == StoreListSentinel(m, this, this)
        m1 == Then(m0, LAMBDA x : BERRYDB_CHECK(x, is_sentinel(x, other),
                                                "move: source is no sentinel"))
        r == next(m1, other)
    IN  Then(r, LAMBDA y :
             IF y.ret = other
             THEN Ret(StoreNext(StorePrev(y.m, this, this), this, this), <<>>)
             ELSE Then(MoveLinks(y.m, this, other), LAMBDA x :
                       IF x.check_is_on
                       THEN MoveWalk(x, this, other, Load(x.next_, this), <<>>)
                       ELSE Ret(x, <<>>)))

\* LinkedList()
LinkedList_ctor(m, l) ==
    Then(StoreSize(LinkedListNode_sentinel(m, SentinelOf(l)), l, 0),
         LAMBDA x : [x EXCEPT !.live = @ \cup {l}])

\* LinkedList(LinkedList&& other); returns the walk of the sentinel's move.
LinkedList_move(m, l, other) ==
    Then(LinkedListNode_move(m, SentinelOf(l), SentinelOf(other)), LAMBDA r :
         Ret(Then(Then(r.m, LAMBDA x : StoreSize(x, l, x.size_[other])),
                  LAMBDA x : [StoreSize(x, other, 0) EXCEPT !.live = @ \cup {l}]),
             r.ret))

----------------------------------------------------------------------------
(* The program: hosts and lists L1 and M1 exist from the start, L2 is        *)
(* constructed later, by LinkedList() or by LinkedList(LinkedList&&).        *)

InitialLists == {"L1", "M1"}

RECURSIVE ConstructNodes(_, _)
ConstructNodes(m, ns) ==
    IF ns = {} THEN m
    ELSE LET n == CHOOSE x \in ns : TRUE
         IN  ConstructNodes(LinkedListNode_plain(m, n), ns \ {n})

RECURSIVE ConstructLists(_, _)
ConstructLists(m, ls) ==
    IF ls = {} THEN m
    ELSE LET l == CHOOSE x \in ls : TRUE
         IN  ConstructLists(LinkedList_ctor(m, l), ls \ {l})

InitMachine(chk) ==
    ConstructLists(
        ConstructNodes(RawMemory(chk), HostNodes(DefaultBridge) \cup HostNodes(CustomBridge)),
        InitialLists)

Init ==
    /\ dbg = InitMachine(TRUE)
    /\ opt = InitMachine(FALSE)
    /\ both = FALSE
    /\ op = "init"

\* The iterator object takes the node a call returned.
SetIt(r) == IF Running(r.m) THEN [r.m EXCEPT !.it = r.ret] ELSE r.m

\* One call, made in both builds.
Call(name, d, o) ==
    /\ Running(dbg)
    /\ dbg' = d
    /\ opt' = IF both THEN o ELSE opt
    /\ op' = name
    /\ UNCHANGED both

DefaultLists(m) == {l \in m.live : BridgeOf(l) = DefaultBridge}

\* pos is a position of list l: its sentinel or a node attached to it.
PositionOf(m, l, pos) == Load(m.list_sentinel_, pos) = SentinelOf(l)

Construct(l) ==
    /\ l \notin dbg.live
    /\ Call("LinkedList", LinkedList_ctor(dbg, l), LinkedList_ctor(opt, l))

\* ~LinkedList() of a list that no node and no iterator refers to; the
\* destructor is trivial, the storage is indeterminate afterwards.
LinkedList_dtor(m, l) ==
    [m EXCEPT !.next_[SentinelOf(l)] = Uninit,
              !.prev_[SentinelOf(l)] = Uninit,
              !.list_sentinel_[SentinelOf(l)] = Uninit,
              !.size_[l] = Uninit,
              !.live = @ \ {l}]

Unreferenced(m, l) ==
    /\ m.it # SentinelOf(l)
    /\ \A n \in Nodes \ {SentinelOf(l)} :
           /\ Load(m.next_, n) # SentinelOf(l)
           /\ Load(m.prev_, n) # SentinelOf(l)

Destroy(l) ==
    /\ l \in dbg.live
    /\ Unreferenced(dbg, l)
    /\ both => Unreferenced(opt, l)
    /\ Call("~LinkedList", LinkedList_dtor(dbg, l), LinkedList_dtor(opt, l))

MoveConstruct(l, other) ==
    /\ l \notin dbg.live
    /\ other \in dbg.live
    /\ BridgeOf(l) = BridgeOf(other)
    /\ Call("move", LinkedList_move(dbg, l, other).m, LinkedList_move(opt, l, other).m)

Begin(l) ==
    /\ l \in DefaultLists(dbg)
    /\ Call("begin", SetIt(begin(dbg, l)), SetIt(begin(opt, l)))

End(l) ==
    /\ l \in DefaultLists(dbg)
    /\ Call("end", SetIt(end(dbg, l)), SetIt(end(opt, l)))

Increment ==
    /\ dbg.it # Null
    /\ Call("operator++", SetIt(iterator_inc(dbg, dbg.it)), SetIt(iterator_inc(opt, opt.it)))

Decrement ==
    /\ dbg.it # Null
    /\ Call("operator--", SetIt(iterator_dec(dbg, dbg.it)), SetIt(iterator_dec(opt, opt.it)))

Dereference ==
    /\ dbg.it # Null
    /\ Call("operator*", iterator_deref(dbg, DefaultBridge, dbg.it).m,
                         iterator_deref(opt, DefaultBridge, opt.it).m)

Front(l) ==
    /\ l \in dbg.live
    /\ Call("front", front(dbg, l).m, front(opt, l).m)

Back(l) ==
    /\ l \in dbg.live
    /\ Call("back", back(dbg, l).m, back(opt, l).m)

Insert(l, value) ==
    /\ l \in DefaultLists(dbg)
    /\ dbg.it # Null
    /\ Call("insert", insert(dbg, l, dbg.it, value), insert(opt, l, opt.it, value))

Erase(l) ==
    /\ l \in DefaultLists(dbg)
    /\ dbg.it # Null
    /\ Call("erase", erase(dbg, l, dbg.it), erase(opt, l, opt.it))

EraseValue(l, value) ==
    /\ l \in dbg.live
    /\ Call("erase_value", erase_value(dbg, l, value), erase_value(opt, l, value))

PushFront(l, value) ==
    /\ l \in dbg.live
    /\ Call("push_front", push_front(dbg, l, value), push_front(opt, l, value))

PushBack(l, value) ==
    /\ l \in dbg.live
    /\ Call("push_back", push_back(dbg, l, value), push_back(opt, l, value))

PopFront(l) ==
    /\ l \in dbg.live
    /\ Call("pop_front", pop_front(dbg, l), pop_front(opt, l))

PopBack(l) ==
    /\ l \in dbg.live
    /\ Call("pop_back", pop_back(dbg, l), pop_back(opt, l))

\* Two lists that share the default bridge, with the iterator.
SharedLists == {"L1", "L2"}

Next ==
    \/ \E l \in SharedLists : Construct(l)
    \/ Destroy("L2")
    \/ \E l \in SharedLists, other \in SharedLists : MoveConstruct(l, other)
    \/ \E l \in SharedLists : Begin(l)
    \/ \E l \in SharedLists : End(l)
    \/ Increment
    \/ Decrement
    \/ Dereference
    \/ \E l \in SharedLists : Front(l)
    \/ \E l \in SharedLists : Back(l)
    \/ \E l \in SharedLists, value \in Hosts \cup {Null} : Insert(l, value)
    \/ \E l \in SharedLists : Erase(l)
    \/ \E l \in SharedLists, value \in Hosts : EraseValue(l, value)
    \/ \E l \in SharedLists, value \in Hosts \cup {Null} : PushFront(l, value)
    \/ \E l \in SharedLists, value \in Hosts \cup {Null} : PushBack(l, value)
    \/ \E l \in SharedLists : PopFront(l)
    \/ \E l \in SharedLists : PopBack(l)

Spec == Init /\ [][Next]_vars

\* One host type in two lists at once: L1 through the default bridge, M1
\* through the custom bridge.
BridgedLists == {"L1", "M1"}

NextBridges ==
    \/ Begin("L1")
    \/ End("L1")
    \/ Increment
    \/ Decrement
    \/ \E value \in Hosts : Insert("L1", value)
    \/ Erase("L1")
    \/ \E l \in BridgedLists : Front(l)
    \/ \E l \in BridgedLists : Back(l)
    \/ \E l \in BridgedLists, value \in Hosts : EraseValue(l, value)
    \/ \E l \in BridgedLists, value \in Hosts : PushFront(l, value)
    \/ \E l \in BridgedLists, value \in Hosts : PushBack(l, value)
    \/ \E l \in BridgedLists : PopFront(l)
    \/ \E l \in BridgedLists : PopBack(l)

SpecBridges == Init /\ [][NextBridges]_vars

----------------------------------------------------------------------------
(* What a caller observes *)

Range(seq) == {seq[i] : i \in 1..Len(seq)}

Reverse(seq) == [i \in 1..Len(seq) |-> seq[Len(seq) + 1 - i]]

\* The non-sentinel nodes met from sentinel s by following next_.
RECURSIVE ChainFrom(_, _, _, _)
ChainFrom(m, s, node, n) ==
    IF node = s THEN <<>>
    ELSE IF n = 0 \/ node \notin Nodes THEN <<Broken>>
    ELSE <<node>> \o ChainFrom(m, s, Load(m.next_, node), n - 1)

Chain(m, l) == ChainFrom(m, SentinelOf(l), Load(m.next_, SentinelOf(l)), Cardinality(Nodes))

\* for (it = begin(); it != end(); ++it) visit(*it)
RECURSIVE ForwardFrom(_, _, _, _)
ForwardFrom(m, l, node, n) ==
    IF node = end(m, l).ret THEN <<>>
    ELSE IF n = 0 \/ ~Running(iterator_deref(m, BridgeOf(l), node).m)
                  \/ ~Running(iterator_inc(m, node).m) THEN <<Broken>>
    ELSE <<iterator_deref(m, BridgeOf(l), node).ret>>
         \o ForwardFrom(m, l, iterator_inc(m, node).ret, n - 1)

Forward(m, l) ==
    IF ~Running(begin(m, l).m) THEN <<Broken>>
    ELSE ForwardFrom(m, l, begin(m, l).ret, Cardinality(Nodes))

\* for (it = end(); it != begin(); ) { --it; visit(*it); }
RECURSIVE BackwardFrom(_, _, _, _)
BackwardFrom(m, l, node, n) ==
    IF node = begin(m, l).ret THEN <<>>
    ELSE IF n = 0 \/ ~Running(iterator_dec(m, node).m)
                  \/ ~Running(iterator_deref(m, BridgeOf(l), iterator_dec(m, node).ret).m)
    THEN <<Broken>>
    ELSE <<iterator_deref(m, BridgeOf(l), iterator_dec(m, node).ret).ret>>
         \o BackwardFrom(m, l, iterator_dec(m, node).ret, n - 1)

Backward(m, l) ==
    IF ~Running(begin(m, l).m) THEN <<Broken>>
    ELSE BackwardFrom(m, l, end(m, l).ret, Cardinality(Nodes))

----------------------------------------------------------------------------
(* Claims *)

\* C1: for a single list (one list per bridge), after every sequence of
\* calls that meet their preconditions, size() is the number of non-sentinel
\* nodes reachable from the sentinel by next_, and empty() = (size() = 0).
C1_SizeCountsAttached ==
    Running(dbg) =>
        \A l \in dbg.live :
            /\ Broken \notin Range(Chain(dbg, l))
            /\ size(dbg, l) = Len(Chain(dbg, l))
            /\ Running(empty(dbg, l).m)
            /\ empty(dbg, l).ret = (size(dbg, l) = 0)

\* An erase has just left two of three pushed elements in L1.
C1_Witness ==
    /\ Running(dbg)
    /\ op = "erase_value"
    /\ size(dbg, "L1") = 2
    /\ Len(Chain(dbg, "L1")) = 2
    /\ ~empty(dbg, "L1").ret

InsertAt(seq, i, x) == SubSeq(seq, 1, i - 1) \o <<x>> \o SubSeq(seq, i, Len(seq))

\* The place of position pos in the forward sequence seq of list l; end() is
\* one past the last element.
PosIndex(seq, l, pos) ==
    IF pos = SentinelOf(l) THEN Len(seq) + 1
    ELSE CHOOSE i \in 1..Len(seq) : NodeForHost(BridgeOf(l), seq[i]) = pos

\* The call made in this step is insert(pos, value) on list l with pos the
\* iterator, a position of l, and value's node detached.
InsertStep(l, value) ==
    /\ Running(dbg)
    /\ l \in DefaultLists(dbg)
    /\ dbg.it # Null
    /\ PositionOf(dbg, l, dbg.it)
    /\ Load(dbg.list_sentinel_, NodeForHost(BridgeOf(l), value)) = Null
    /\ op' = "insert"
    /\ dbg' = insert(dbg, l, dbg.it, value)

\* C2: insert(pos, value) with value detached and pos a position of this
\* list completes and yields the previous forward sequence with value placed
\* immediately before the element at pos (last when pos is end()); size()
\* grows by exactly 1.
C2_InsertBeforePos ==
    [][\A l \in SharedLists, value \in Hosts :
          InsertStep(l, value) =>
              /\ Running(dbg')
              /\ Broken \notin Range(Forward(dbg, l))
              /\ Forward(dbg', l)
                   = InsertAt(Forward(dbg, l), PosIndex(Forward(dbg, l), l, dbg.it), value)
              /\ size(dbg', l) = size(dbg, l) + 1]_vars

\* An insert has just put an element in the middle of L1: the iterator is on
\* the third of three elements and the call was insert.
C2_Witness ==
    /\ Running(dbg)
    /\ op = "insert"
    /\ Len(Forward(dbg, "L1")) = 3
    /\ dbg.it = NodeForHost(DefaultBridge, Forward(dbg, "L1")[3])

\* seq without its elements equal to x.
Without(seq, x) == SelectSeq(seq, LAMBDA y : y # x)

Occurrences(seq, x) == Cardinality({i \in 1..Len(seq) : seq[i] = x})

\* The node is a non-sentinel node attached to list l.
AttachedTo(m, l, node) ==
    /\ node \in HostNodes(BridgeOf(l))
    /\ Load(m.list_sentinel_, node) = SentinelOf(l)

\* The call made in this step is erase(value) on list l, value attached to l.
EraseValueStep(l, value) ==
    /\ Running(dbg)
    /\ l \in dbg.live
    /\ AttachedTo(dbg, l, NodeForHost(BridgeOf(l), value))
    /\ op' = "erase_value"
    /\ dbg' = erase_value(dbg, l, value)

\* The call made in this step is erase(pos) on list l, pos the iterator, on
\* the node of value, attached to l.
ErasePosStep(l, value) ==
    /\ Running(dbg)
    /\ l \in DefaultLists(dbg)
    /\ dbg.it = NodeForHost(BridgeOf(l), value)
    /\ AttachedTo(dbg, l, dbg.it)
    /\ op' = "erase"
    /\ dbg' = erase(dbg, l, dbg.it)

\* What the claim C3 says of an erase of value from list l.
ErasedExactly(l, value) ==
    /\ Running(dbg')
    /\ Broken \notin Range(Forward(dbg, l))
    /\ Occurrences(Forward(dbg, l), value) = 1
    /\ Forward(dbg', l) = Without(Forward(dbg, l), value)
    /\ size(dbg', l) = size(dbg, l) - 1

\* C3: erase(value) and erase(pos), applied to a node attached to this list,
\* remove exactly that element: the forward sequence afterwards is the
\* previous one with that element deleted, and size() drops by exactly 1.
C3_EraseRemovesExactly ==
    [][\A l \in SharedLists, value \in Hosts :
          (EraseValueStep(l, value) \/ ErasePosStep(l, value)) => ErasedExactly(l, value)]_vars

\* The calls push_front, push_back (value's node detached) and pop_front,
\* pop_back (list not empty) as steps.
PushFrontStep(l, value) ==
    /\ Running(dbg)
    /\ l \in dbg.live
    /\ Load(dbg.list_sentinel_, NodeForHost(BridgeOf(l), value)) = Null
    /\ op' = "push_front"
    /\ dbg' = push_front(dbg, l, value)

PushBackStep(l, value) ==
    /\ Running(dbg)
    /\ l \in dbg.live
    /\ Load(dbg.list_sentinel_, NodeForHost(BridgeOf(l), value)) = Null
    /\ op' = "push_back"
    /\ dbg' = push_back(dbg, l, value)

PopFrontStep(l) ==
    /\ Running(dbg)
    /\ l \in dbg.live
    /\ ~empty(dbg, l).ret
    /\ op' = "pop_front"
    /\ dbg' = pop_front(dbg, l)

PopBackStep(l) ==
    /\ Running(dbg)
    /\ l \in dbg.live
    /\ ~empty(dbg, l).ret
    /\ op' = "pop_back"
    /\ dbg' = pop_back(dbg, l)

\* front() and back() of a non-empty list are the first and the last element
\* of the forward sequence.
FrontBackAreEnds(m, l) ==
    (Running(m) /\ l \in m.live /\ ~empty(m, l).ret) =>
        /\ Running(front(m, l).m)
        /\ Running(back(m, l).m)
        /\ Forward(m, l) # <<>>
        /\ front(m, l).ret = Head(Forward(m, l))
        /\ back(m, l).ret = Forward(m, l)[Len(Forward(m, l))]

\* What the claim C4 says of the boundary calls on the lists ls.
BoundaryCalls(ls) ==
    \A l \in ls :
        /\ FrontBackAreEnds(dbg, l)
        /\ FrontBackAreEnds(dbg', l)
        /\ \A value \in Hosts :
              /\ PushBackStep(l, value) =>
                    /\ Running(dbg')
                    /\ Forward(dbg', l) = Append(Forward(dbg, l), value)
              /\ PushFrontStep(l, value) =>
                    /\ Running(dbg')
                    /\ Forward(dbg', l) = <<value>> \o Forward(dbg, l)
        /\ PopFrontStep(l) =>
              /\ Running(dbg')
              /\ Forward(dbg', l) = Tail(Forward(dbg, l))
        /\ PopBackStep(l) =>
              /\ Running(dbg')
              /\ Forward(dbg', l) = SubSeq(Forward(dbg, l), 1, Len(Forward(dbg, l)) - 1)

\* C4: push_back(v) makes v the last and push_front(v) the first element;
\* pop_front() removes the first and pop_back() the last element of a
\* non-empty list; front() and back() return the first and the last element
\* of the forward sequence.
C4_BoundaryOperations == [][BoundaryCalls(SharedLists)]_vars

\* The call made in this step move-constructs list l from the non-empty
\* list other.
MoveStep(l, other) ==
    /\ Running(dbg)
    /\ l \notin dbg.live
    /\ other \in dbg.live
    /\ BridgeOf(l) = BridgeOf(other)
    /\ ~empty(dbg, other).ret
    /\ op' = "move"
    /\ dbg' = LinkedList_move(dbg, l, other).m

\* C5: move construction from a non-empty source gives the new list the
\* source's size and forward order, leaves the source empty (size() 0, its
\* sentinel linked to itself) and, in a walk that ends, rewrites the
\* list_sentinel_ of every moved node exactly once to the new sentinel.
C5_MoveTransfers ==
    [][\A l \in SharedLists, other \in SharedLists :
          MoveStep(l, other) =>
              /\ Running(dbg')
              /\ Broken \notin Range(Forward(dbg, other))
              /\ Forward(dbg', l) = Forward(dbg, other)
              /\ size(dbg', l) = size(dbg, other)
              /\ size(dbg', other) = 0
              /\ empty(dbg', other).ret
              /\ Forward(dbg', other) = <<>>
              /\ dbg'.next_[SentinelOf(other)] = SentinelOf(other)
              /\ dbg'.prev_[SentinelOf(other)] = SentinelOf(other)
              /\ LinkedList_move(dbg, l, other).ret = Chain(dbg, other)
              /\ Cardinality(Range(Chain(dbg, other))) = Len(Chain(dbg, other))
              /\ \A n \in Range(Chain(dbg, other)) :
                    dbg'.list_sentinel_[n] = SentinelOf(l)]_vars

\* A move has just given L2 two or more elements and left L1 empty.
C5_Witness ==
    /\ Running(dbg)
    /\ op = "move"
    /\ size(dbg, "L2") >= 2
    /\ Len(Forward(dbg, "L2")) >= 2
    /\ empty(dbg, "L1").ret
    /\ \A n \in Range(Chain(dbg, "L2")) : dbg.list_sentinel_[n] = SentinelOf("L2")

\* The machines a call of the given name on list l can produce.
CallsOn(l, name) ==
    CASE name = "push_front" -> {push_front(dbg, l, value) : value \in Hosts}
      [] name = "push_back" -> {push_back(dbg, l, value) : value \in Hosts}
      [] name = "erase_value" -> {erase_value(dbg, l, value) : value \in Hosts}
      [] name = "pop_front" -> {pop_front(dbg, l)}
      [] name = "pop_back" -> {pop_back(dbg, l)}
      [] name = "insert" /\ l \in DefaultLists(dbg) ->
            {insert(dbg, l, dbg.it, value) : value \in Hosts}
      [] name = "erase" /\ l \in DefaultLists(dbg) -> {erase(dbg, l, dbg.it)}
      [] OTHER -> {}

\* The call made in this step is an insert, erase, push or pop on list l.
ModifyingStep(l) ==
    /\ Running(dbg)
    /\ l \in dbg.live
    /\ dbg' \in CallsOn(l, op')

\* The step leaves list l and the node fields of its bridge as they were.
Untouched(l) ==
    /\ \A n \in HostNodes(BridgeOf(l)) \cup {SentinelOf(l)} :
          /\ dbg'.next_[n] = dbg.next_[n]
          /\ dbg'.prev_[n] = dbg.prev_[n]
          /\ dbg'.list_sentinel_[n] = dbg.list_sentinel_[n]
    /\ dbg'.size_[l] = dbg.size_[l]
    /\ Chain(dbg', l) = Chain(dbg, l)
    /\ Running(dbg') =>
          /\ size(dbg', l) = size(dbg, l)
          /\ Forward(dbg', l) = Forward(dbg, l)
          /\ \A value \in Hosts :
                AttachedTo(dbg', l, NodeForHost(BridgeOf(l), value))
                    = AttachedTo(dbg, l, NodeForHost(BridgeOf(l), value))

\* C6: with hosts that carry one node field per bridge, an insert, erase,
\* push or pop on the list of one bridge leaves every host's node of the other
\* bridge (next_, prev_, list_sentinel_), the other list's size() and the
\* other list's forward sequence unchanged.
C6_BridgesIndependent ==
    [][/\ ModifyingStep("L1") => Untouched("M1")
       /\ ModifyingStep("M1") => Untouched("L1")]_vars

\* An erase(value) on L1 has just returned while all hosts stay in M1: no
\* erase on M1 can have left M1 full.
C6_Witness ==
    /\ Running(dbg)
    /\ op = "erase_value"
    /\ Len(Forward(dbg, "M1")) = MaxHosts
    /\ Range(Forward(dbg, "M1")) = Hosts
    /\ size(dbg, "M1") = MaxHosts
    /\ Len(Forward(dbg, "L1")) = 1

\* insert(pos, v) immediately followed by erase(v), on list l.
RoundTrip(m, l, pos, v) ==
    Then(insert(m, l, pos, v), LAMBDA x : erase_value(x, l, v))

\* v's node is detached in m.
Detached(m, l, v) ==
    /\ Load(m.next_, NodeForHost(BridgeOf(l), v)) = Null
    /\ Load(m.prev_, NodeForHost(BridgeOf(l), v)) = Null
    /\ Load(m.list_sentinel_, NodeForHost(BridgeOf(l), v)) = Null

\* The round trip through pos with v restores list l.
Restores(m, l, pos, v) ==
    Then(RoundTrip(m, l, pos, v),
         LAMBDA x : /\ Running(x)
                    /\ size(x, l) = size(m, l)
                    /\ Forward(x, l) = Forward(m, l)
                    /\ Detached(x, l, v))

\* C7: in every list state, for every position pos of the list and every
\* detached value v, insert(pos, v) followed by erase(v) returns, restores
\* size() and the forward sequence, and leaves v's node detached (next_,
\* prev_ and list_sentinel_ null).
C7_InsertEraseRoundTrip ==
    Running(dbg) =>
        \A l \in DefaultLists(dbg) :
            \A pos \in {n \in Nodes : PositionOf(dbg, l, n)} :
                \A v \in {h \in Hosts : Detached(dbg, l, h)} :
                    Restores(dbg, l, pos, v)

\* L1 holds two elements, a third value is detached, and inserting it before
\* the second element gives three elements before the erase takes it out.
C7_Witness ==
    /\ Running(dbg)
    /\ Len(Forward(dbg, "L1")) = 2
    /\ \E v \in Hosts :
          /\ Detached(dbg, "L1", v)
          /\ PositionOf(dbg, "L1", NodeForHost(DefaultBridge, Forward(dbg, "L1")[2]))
          /\ Then(insert(dbg, "L1", NodeForHost(DefaultBridge, Forward(dbg, "L1")[2]), v),
                  LAMBDA x : /\ Running(x)
                             /\ Forward(x, "L1")
                                  = <<Forward(dbg, "L1")[1], v, Forward(dbg, "L1")[2]>>)
          /\ Restores(dbg, "L1", NodeForHost(DefaultBridge, Forward(dbg, "L1")[2]), v)

\* The backward walk of list l is the reverse of its forward walk, and both
\* visit size() elements.
WalksAgree(m, l) ==
    /\ Broken \notin Range(Forward(m, l))
    /\ Backward(m, l) = Reverse(Forward(m, l))
    /\ Len(Forward(m, l)) = size(m, l)
    /\ Len(Backward(m, l)) = size(m, l)

\* C8: in every reachable list state the walk from begin() to end() and the
\* walk from --end() down to begin() visit the same elements in reverse
\* order, and each walk visits exactly size() elements.
C8_BackwardIsReverse ==
    Running(dbg) => \A l \in dbg.live : WalksAgree(dbg, l)

\* The step ends in a fatal violation with every link, owner and size field
\* as it was before the call.
FatalBeforeAnyStore ==
    /\ ~Running(dbg')
    /\ dbg'.next_ = dbg.next_
    /\ dbg'.prev_ = dbg.prev_
    /\ dbg'.list_sentinel_ = dbg.list_sentinel_
    /\ dbg'.size_ = dbg.size_

\* The call made in this step is erase(pos) or erase(value) on list l, and
\* the node it targets is not attached to l.
EraseUnattachedStep(l) ==
    /\ Running(dbg)
    /\ l \in dbg.live
    /\ \/ /\ op' = "erase"
          /\ dbg.it \in Nodes
          /\ ~AttachedTo(dbg, l, dbg.it)
          /\ dbg' = erase(dbg, l, dbg.it)
       \/ /\ op' = "erase_value"
          /\ \E value \in Hosts :
                /\ ~AttachedTo(dbg, l, NodeForHost(BridgeOf(l), value))
                /\ dbg' = erase_value(dbg, l, value)

\* C9: erase(pos) or erase(value) on list L whose target node is not
\* attached to L (detached, attached to another list, or a sentinel) is a
\* fatal violation raised before any next_, prev_, list_sentinel_ or size_
\* has been modified.
C9_EraseUnattachedIsFatal ==
    [][\A l \in SharedLists : EraseUnattachedStep(l) => FatalBeforeAnyStore]_vars

\* erase(value) has just been refused on the ownership comparison while
\* every host is attached to L2: the refused call was on L1, for a node of L2.
C9_Witness ==
    /\ op = "erase_value"
    /\ dbg.fatal = "erase: node not in this list"
    /\ {"L1", "L2"} \subseteq dbg.live
    /\ \A h \in Hosts : AttachedTo(dbg, "L2", NodeForHost(DefaultBridge, h))
    /\ Len(Chain(dbg, "L2")) = MaxHosts

\* The call made in this step is insert(pos, value), push_front(value) or
\* push_back(value) on list l with value's node already attached to a list,
\* or insert(pos, value) with the node at pos attached to no list.
InsertMisuseStep(l, value) ==
    /\ Running(dbg)
    /\ l \in dbg.live
    /\ \/ /\ op' = "insert"
          /\ l \in DefaultLists(dbg)
          /\ dbg.it \in Nodes
          /\ \/ Load(dbg.list_sentinel_, NodeForHost(BridgeOf(l), value)) # Null
             \/ Load(dbg.list_sentinel_, dbg.it) = Null
          /\ dbg' = insert(dbg, l, dbg.it, value)
       \/ /\ op' = "push_front"
          /\ Load(dbg.list_sentinel_, NodeForHost(BridgeOf(l), value)) # Null
          /\ dbg' = push_front(dbg, l, value)
       \/ /\ op' = "push_back"
          /\ Load(dbg.list_sentinel_, NodeForHost(BridgeOf(l), value)) # Null
          /\ dbg' = push_back(dbg, l, value)

\* C10: insert, push_front or push_back with value's node already attached
\* to any list, or insert at a pos whose node is attached to no list, is a
\* fatal violation raised before any next_, prev_, list_sentinel_ or size_
\* has been modified.
C10_InsertMisuseIsFatal ==
    [][\A l \in SharedLists, value \in Hosts :
          InsertMisuseStep(l, value) => FatalBeforeAnyStore]_vars

\* insert has just been refused because the iterator is stale: it points at
\* a host node that was erased and is attached to no list.
C10_Witness ==
    /\ op = "insert"
    /\ dbg.fatal = "InsertBefore: next not in a list"
    /\ dbg.it \in HostNodes(DefaultBridge)
    /\ Load(dbg.list_sentinel_, dbg.it) = Null
    /\ \E h \in Hosts : Load(dbg.list_sentinel_, NodeForHost(DefaultBridge, h)) = Null
                        /\ NodeForHost(DefaultBridge, h) # dbg.it

\* size() of list l counts the nodes on its sentinel's chain, and empty()
\* agrees with it.
SizeIsChainLength(m, l) ==
    /\ Broken \notin Range(Chain(m, l))
    /\ size(m, l) = Len(Chain(m, l))
    /\ Running(empty(m, l).m)
    /\ empty(m, l).ret = (size(m, l) = 0)

\* C11: across the lists that share the default bridge, in every state
\* reached without a check firing, each list's size() equals the number of
\* non-sentinel nodes reachable from its own sentinel and its empty() equals
\* (size() == 0).
C11_SizesAcrossLists ==
    Running(dbg) => \A l \in SharedLists \cap dbg.live : SizeIsChainLength(dbg, l)

\* The iterator positions of list l in order: its nodes, then end().
Positions(m, l) == Chain(m, l) \o <<SentinelOf(l)>>

NodeIndex(seq, node) == CHOOSE i \in 1..Len(seq) : seq[i] = node

\* The call made in this step is ++ on an iterator of list l, positioned on
\* an attached node or at end().
IncStep(l) ==
    /\ Running(dbg)
    /\ l \in dbg.live
    /\ dbg.it \in Range(Positions(dbg, l))
    /\ op' = "operator++"
    /\ dbg' = SetIt(iterator_inc(dbg, dbg.it))

\* The call made in this step is -- on an iterator of list l, positioned on
\* an attached node or at end().
DecStep(l) ==
    /\ Running(dbg)
    /\ l \in dbg.live
    /\ dbg.it \in Range(Positions(dbg, l))
    /\ op' = "operator--"
    /\ dbg' = SetIt(iterator_dec(dbg, dbg.it))

\* The step is accepted, changes nothing but the iterator and leaves it at
\* position i of list l.
MovesTo(l, i) ==
    /\ Running(dbg')
    /\ dbg' = [dbg EXCEPT !.it = Positions(dbg, l)[i]]

\* The step is fatal and leaves the iterator and every field as they were.
Refused == ~Running(dbg') /\ dbg' = [dbg EXCEPT !.fatal = dbg'.fatal]

\* C12: ++ on an iterator at end() is fatal and -- on an iterator at
\* begin() is fatal (end() of an empty list included); every other ++ or --
\* of an iterator on an attached node or on end() of a non-empty list is
\* accepted and moves to the adjacent position.
C12_IteratorBoundaries ==
    [][\A l \in SharedLists :
          /\ IncStep(l) =>
                IF dbg.it = SentinelOf(l)
                THEN Refused
                ELSE MovesTo(l, NodeIndex(Positions(dbg, l), dbg.it) + 1)
          /\ DecStep(l) =>
                IF dbg.it = Positions(dbg, l)[1]
                THEN Refused
                ELSE MovesTo(l, NodeIndex(Positions(dbg, l), dbg.it) - 1)]_vars

\* -- has just moved the iterator from end() of a two-element L1 to its last
\* element.
C12_Witness ==
    /\ Running(dbg)
    /\ op = "operator--"
    /\ Len(Chain(dbg, "L1")) = 2
    /\ dbg.it = Chain(dbg, "L1")[2]
    /\ Load(dbg.next_, dbg.it) = SentinelOf("L1")

\* Every way of asking list l for the host of its sentinel is fatal:
\* *end(), and front() and back() when the list is empty.
SentinelNeverHandedOut(m, l) ==
    /\ ~Running(Then(end(m, l), LAMBDA e : iterator_deref(e.m, BridgeOf(l), e.ret)).m)
    /\ empty(m, l).ret =>
          /\ ~Running(front(m, l).m)
          /\ ~Running(back(m, l).m)

\* C13: dereferencing an iterator at end(), front() on an empty list and
\* back() on an empty list are each fatal, for the list of the default bridge
\* and for the list of the custom bridge of the class comment.
C13_SentinelNeverHandedOut ==
    Running(dbg) => \A l \in BridgedLists : SentinelNeverHandedOut(dbg, l)

\* The non-sentinel nodes whose list_sentinel_ is the sentinel of list l.
Owned(m, l) == {n \in Nodes \ Sentinels : Load(m.list_sentinel_, n) = SentinelOf(l)}

\* n.next.prev == n and n.prev.next == n
Linked(m, n) ==
    /\ Load(m.next_, n) \in Nodes
    /\ Load(m.prev_, n) \in Nodes
    /\ Load(m.prev_, Load(m.next_, n)) = n
    /\ Load(m.next_, Load(m.prev_, n)) = n

\* The chain of list l is one cycle through its sentinel that holds exactly
\* the nodes attached to l, each once.
SingleCycle(m, l) ==
    /\ Broken \notin Range(Chain(m, l))
    /\ Cardinality(Range(Chain(m, l))) = Len(Chain(m, l))
    /\ Range(Chain(m, l)) = Owned(m, l)

\* The sentinel of l links to itself exactly when l has no attached node.
SelfLinkedIffEmpty(m, l) ==
    /\ (Load(m.next_, SentinelOf(l)) = SentinelOf(l)) = (Owned(m, l) = {})
    /\ (Load(m.prev_, SentinelOf(l)) = SentinelOf(l)) = (Owned(m, l) = {})

\* C14: in every reachable running state, every sentinel and every attached
\* node n has n.next.prev == n and n.prev.next == n, each list's chain is a
\* single cycle through its sentinel, and a sentinel's next_ and prev_ equal
\* the sentinel exactly when its list has no attached node.
C14_LinkConsistency ==
    Running(dbg) =>
        \A l \in dbg.live :
            /\ Linked(dbg, SentinelOf(l))
            /\ \A n \in Owned(dbg, l) : Linked(dbg, n)
            /\ SingleCycle(dbg, l)
            /\ SelfLinkedIffEmpty(dbg, l)

\* An erase has just detached the node under the iterator, leaving one node
\* on L1 and one on L2.
C14_Witness ==
    /\ Running(dbg)
    /\ op = "erase"
    /\ "L2" \in dbg.live
    /\ Len(Chain(dbg, "L1")) = 1
    /\ Len(Chain(dbg, "L2")) = 1
    /\ Load(dbg.list_sentinel_, dbg.it) = Null

\* The live lists whose chain contains node n.
InChains(m, n) == {l \in m.live : n \in Range(Chain(m, l))}

\* list_sentinel_ of the non-sentinel node n is exact.
OwnerExact(m, n) ==
    /\ (Load(m.list_sentinel_, n) = Null) = (InChains(m, n) = {})
    /\ Load(m.list_sentinel_, n) = Null =>
          /\ Load(m.next_, n) = Null
          /\ Load(m.prev_, n) = Null
    /\ \A l \in InChains(m, n) : Load(m.list_sentinel_, n) = SentinelOf(l)

\* C15: in every reachable state of the validated build a non-sentinel node
\* has list_sentinel_ null exactly when it is on no list's chain, and then
\* its next_ and prev_ are null too; a node on a chain has the sentinel of
\* that chain as list_sentinel_; every list's sentinel, that of a moved-from
\* list included, has itself as list_sentinel_.
C15_OwnerExact ==
    /\ \A n \in Nodes \ Sentinels : OwnerExact(dbg, n)
    /\ \A l \in dbg.live : Load(dbg.list_sentinel_, SentinelOf(l)) = SentinelOf(l)

\* A move has just made L2 out of a two-element L1; the moved nodes name
\* L2's sentinel, the third node is detached, and the moved-from L1 is live.
C15_Witness ==
    /\ Running(dbg)
    /\ op = "move"
    /\ {"L1", "L2"} \subseteq dbg.live
    /\ Len(Chain(dbg, "L2")) = 2
    /\ Chain(dbg, "L1") = <<>>
    /\ Cardinality(Owned(dbg, "L2")) = 2
    /\ \E n \in HostNodes(DefaultBridge) : Load(dbg.list_sentinel_, n) = Null

\* The host a non-sentinel node of list l's bridge is embedded in.
HostOf(l, n) == n - offsetof(BridgeOf(l))

\* C16: in every state reached without a check firing, the sets of nodes
\* reachable from the sentinels of distinct lists are pairwise disjoint, and
\* every attached node occurs exactly once in the forward traversal of its
\* list.
C16_AtMostOneList ==
    Running(dbg) =>
        /\ \A l1 \in dbg.live : \A l2 \in dbg.live \ {l1} :
              Range(Chain(dbg, l1)) \cap Range(Chain(dbg, l2)) = {}
        /\ \A l \in dbg.live :
              /\ Broken \notin Range(Chain(dbg, l))
              /\ \A n \in Range(Chain(dbg, l)) \cup Owned(dbg, l) :
                    Occurrences(Forward(dbg, l), HostOf(l, n)) = 1

\* An insert has just left two hosts in L1 while L2 holds the third.
C16_Witness ==
    /\ Running(dbg)
    /\ op = "insert"
    /\ "L2" \in dbg.live
    /\ Len(Forward(dbg, "L1")) = 2
    /\ Len(Forward(dbg, "L2")) = 1
    /\ Range(Forward(dbg, "L1")) \cup Range(Forward(dbg, "L2")) = Hosts

\* The step changes next_ only at the nodes ns, prev_ only at the nodes ps,
\* list_sentinel_ only at node, and the size_ of no list but l.
ChangesOnly(l, node, ns, ps) ==
    /\ \A n \in Nodes \ ns : dbg'.next_[n] = dbg.next_[n]
    /\ \A n \in Nodes \ ps : dbg'.prev_[n] = dbg.prev_[n]
    /\ \A n \in Nodes \ {node} : dbg'.list_sentinel_[n] = dbg.list_sentinel_[n]
    /\ \A l2 \in Lists \ {l} : dbg'.size_[l2] = dbg.size_[l2]

\* Inserting node before target touches next_ of node and of target's
\* former predecessor, and prev_ of node and of target.
InsertIsLocal(l, node, target) ==
    ChangesOnly(l, node, {node, Load(dbg.prev_, target)}, {node, target})

\* Removing node touches next_ of its predecessor, prev_ of its successor,
\* and node's own fields, which end up null.
RemoveIsLocal(l, node) ==
    /\ ChangesOnly(l, node, {node, Load(dbg.prev_, node)}, {node, Load(dbg.next_, node)})
    /\ dbg'.list_sentinel_[node] # dbg.list_sentinel_[node] =>
          /\ dbg'.next_[node] = Null
          /\ dbg'.prev_[node] = Null
          /\ dbg'.list_sentinel_[node] = Null

\* What the call of this step, if it is an insert or a push on l, must
\* leave alone.
InsertCallsAreLocal(l) ==
    \A value \in Hosts :
        /\ (op' = "insert" /\ l \in DefaultLists(dbg) /\ dbg.it \in Nodes
            /\ dbg' = insert(dbg, l, dbg.it, value))
              => InsertIsLocal(l, NodeForHost(BridgeOf(l), value), dbg.it)
        /\ (op' = "push_front" /\ dbg' = push_front(dbg, l, value))
              => InsertIsLocal(l, NodeForHost(BridgeOf(l), value),
                               Load(dbg.next_, SentinelOf(l)))
        /\ (op' = "push_back" /\ dbg' = push_back(dbg, l, value))
              => InsertIsLocal(l, NodeForHost(BridgeOf(l), value), SentinelOf(l))

\* What the call of this step, if it is an erase or a pop on l, must leave
\* alone.
EraseCallsAreLocal(l) ==
    /\ (op' = "erase" /\ l \in DefaultLists(dbg) /\ dbg.it \in Nodes
        /\ dbg' = erase(dbg, l, dbg.it))
          => RemoveIsLocal(l, dbg.it)
    /\ \A value \in Hosts :
          (op' = "erase_value" /\ dbg' = erase_value(dbg, l, value))
              => RemoveIsLocal(l, NodeForHost(BridgeOf(l), value))
    /\ (op' = "pop_front" /\ dbg' = pop_front(dbg, l))
          => RemoveIsLocal(l, Load(dbg.next_, SentinelOf(l)))
    /\ (op' = "pop_back" /\ dbg' = pop_back(dbg, l))
          => RemoveIsLocal(l, Load(dbg.prev_, SentinelOf(l)))

\* C17: an insert changes link fields only of the inserted node, of the
\* target (prev_) and of the target's former predecessor (next_); a remove
\* changes link fields only of the removed node's two neighbours and clears
\* the removed node's own fields; next_, prev_ and list_sentinel_ of every
\* other node and sentinel, and size_ of every other list, are unchanged.
C17_InsertRemoveLocal ==
    [][\A l \in SharedLists :
          (Running(dbg) /\ l \in dbg.live) =>
              /\ InsertCallsAreLocal(l)
              /\ EraseCallsAreLocal(l)]_vars

\* pop_back has just detached a node, leaving one node on L1 and one on L2.
C17_Witness ==
    /\ Running(dbg)
    /\ op = "pop_back"
    /\ "L2" \in dbg.live
    /\ Len(Chain(dbg, "L1")) = 1
    /\ Len(Chain(dbg, "L2")) = 1
    /\ size(dbg, "L1") = 1
    /\ size(dbg, "L2") = 1
    /\ \E n \in HostNodes(DefaultBridge) :
          /\ Load(dbg.list_sentinel_, n) = Null
          /\ Load(dbg.next_, n) = Null
          /\ Load(dbg.prev_, n) = Null

\* Both builds, constructed alike, take the same calls.
InitBuilds ==
    /\ dbg = InitMachine(TRUE)
    /\ opt = InitMachine(FALSE)
    /\ both = TRUE
    /\ op = "init"

\* The call of this step is one the validated build accepts: it violates no
\* precondition.
Accepted == Running(dbg')

\* The public calls the validated build accepts: all of them on L1, and
\* construction, destruction, move, push and pop on L2.
NextBuilds ==
    \/ \E l \in SharedLists : Construct(l) /\ Accepted
    \/ Destroy("L2") /\ Accepted
    \/ \E l \in SharedLists, other \in SharedLists : MoveConstruct(l, other) /\ Accepted
    \/ Begin("L1") /\ Accepted
    \/ End("L1") /\ Accepted
    \/ Increment /\ Accepted
    \/ Decrement /\ Accepted
    \/ \E value \in Hosts : Insert("L1", value) /\ Accepted
    \/ Erase("L1") /\ Accepted
    \/ \E value \in Hosts : EraseValue("L1", value) /\ Accepted
    \/ \E l \in SharedLists, value \in Hosts : PushFront(l, value) /\ Accepted
    \/ \E l \in SharedLists, value \in Hosts : PushBack(l, value) /\ Accepted
    \/ \E l \in SharedLists : PopFront(l) /\ Accepted
    \/ \E l \in SharedLists : PopBack(l) /\ Accepted

SpecBuilds == InitBuilds /\ [][NextBuilds]_vars

\* The two machines report the same about list l.
SameObservations(a, b, l) ==
    /\ size(a, l) = size(b, l)
    /\ Running(empty(a, l).m) /\ Running(empty(b, l).m)
    /\ empty(a, l).ret = empty(b, l).ret
    /\ ~empty(a, l).ret =>
          /\ Running(front(a, l).m) /\ Running(front(b, l).m)
          /\ front(a, l).ret = front(b, l).ret
          /\ Running(back(a, l).m) /\ Running(back(b, l).m)
          /\ back(a, l).ret = back(b, l).ret
    /\ Forward(a, l) = Forward(b, l)
    /\ Backward(a, l) = Backward(b, l)
    /\ Broken \notin Range(Forward(b, l)) \cup Range(Backward(b, l))

\* C18: on every sequence of calls that violates no precondition, the build
\* without checks, whose Remove() leaves the removed node's next_ and prev_
\* stale, reports after each step the same size(), empty(), front(), back()
\* and forward and backward sequence as the validated build.
C18_BuildsAgree ==
    (both /\ Running(dbg)) =>
        /\ Running(opt)
        /\ opt.live = dbg.live
        /\ opt.it = dbg.it
        /\ \A l \in dbg.live : SameObservations(dbg, opt, l)

\* A push has just returned in both builds while, in the build without
\* checks, an erased node is detached with stale links and another node that
\* was linked before is on the list.
C18_Witness ==
    /\ both
    /\ Running(dbg)
    /\ Running(opt)
    /\ op = "push_back"
    /\ Len(Forward(opt, "L1")) = 2
    /\ \A n \in HostNodes(DefaultBridge) : Load(opt.next_, n) \in Nodes
    /\ \E n \in HostNodes(DefaultBridge) :
          /\ Load(dbg.list_sentinel_, n) = Null
          /\ Load(opt.next_, n) \in HostNodes(DefaultBridge)
          /\ Load(opt.prev_, n) \in HostNodes(DefaultBridge)
          /\ Load(opt.prev_, Load(opt.next_, n)) = Load(opt.prev_, n)

\* The call made in this step move-constructs list l from list other.
AnyMoveStep(l, other) ==
    /\ Running(dbg)
    /\ l \notin dbg.live
    /\ other \in dbg.live
    /\ BridgeOf(l) = BridgeOf(other)
    /\ op' = "move"
    /\ dbg' = LinkedList_move(dbg, l, other).m

\* List l of machine m is empty and its sentinel links to itself.
EmptySelfLinked(m, l) ==
    /\ Load(m.next_, SentinelOf(l)) = SentinelOf(l)
    /\ Load(m.prev_, SentinelOf(l)) = SentinelOf(l)
    /\ Load(m.list_sentinel_, SentinelOf(l)) = SentinelOf(l)
    /\ size(m, l) = 0
    /\ empty(m, l).ret
    /\ Forward(m, l) = <<>>

\* r is m after value was inserted into list x: the call returned, value's
\* node names x's sentinel, x grew by value, and list y is as it was.
InsertedInto(m, r, x, y, value) ==
    /\ Running(r)
    /\ Load(r.list_sentinel_, NodeForHost(BridgeOf(x), value)) = SentinelOf(x)
    /\ size(r, x) = size(m, x) + 1
    /\ Len(Forward(r, x)) = Len(Forward(m, x)) + 1
    /\ Without(Forward(r, x), value) = Forward(m, x)
    /\ size(r, y) = size(m, y)
    /\ Forward(r, y) = Forward(m, y)

\* In machine m, list x accepts every insert and push of a detached value
\* and list y is not affected.
AcceptsInserts(m, x, y) ==
    \A value \in {h \in Hosts : Detached(m, x, h)} :
        /\ InsertedInto(m, push_front(m, x, value), x, y, value)
        /\ InsertedInto(m, push_back(m, x, value), x, y, value)
        /\ \A pos \in {n \in Nodes : PositionOf(m, x, n)} :
              InsertedInto(m, insert(m, x, pos, value), x, y, value)

\* C19: after a move construction the source and the new list are two
\* independent usable lists: a move from an empty source gives an empty new
\* list whose sentinel links to itself, and each of the two lists accepts
\* later inserts, which attach the node to that list's own sentinel and
\* change neither size() nor the forward sequence of the other list.
C19_MoveLeavesTwoLists ==
    [][\A l \in SharedLists, other \in SharedLists :
          AnyMoveStep(l, other) =>
              /\ Running(dbg')
              /\ EmptySelfLinked(dbg', other)
              /\ empty(dbg, other).ret => EmptySelfLinked(dbg', l)
              /\ AcceptsInserts(dbg', other, l)
              /\ AcceptsInserts(dbg', l, other)]_vars

\* A move from the empty L1 has just made the empty L2; the moved-from L1
\* takes a push that leaves L2 alone.
C19_Witness ==
    /\ Running(dbg)
    /\ op = "move"
    /\ {"L1", "L2"} \subseteq dbg.live
    /\ EmptySelfLinked(dbg, "L1")
    /\ EmptySelfLinked(dbg, "L2")
    /\ \E value \in Hosts :
          /\ Detached(dbg, "L1", value)
          /\ InsertedInto(dbg, push_back(dbg, "L1", value), "L1", "L2", value)

=============================================================================
